---- MODULE Spec2Model ----
(***************************************************************************)
(* A model of app_gemini.py: the exchange-rate table, the keyword          *)
(* extraction over the candidate backends, and one run of the search       *)
(* (the query loop over the selected countries, the rows it builds and     *)
(* the per-country minimum dashboard).                                     *)
(*                                                                         *)
(* Numbers.  A rate is an exact fraction [n, d] (0.79 is 79/100).  An      *)
(* amount of money is a mixed number [q, r, d] = q + r/d with 0 <= r < d,  *)
(* so that int(x) is q and sums of the size of the sentinel can be         *)
(* compared without leaving the range of the checker's integers.           *)
(* Strings that the code inspects (the keyword) are sequences of tokens.   *)
(***************************************************************************)
EXTENDS Integers, Sequences, FiniteSets, TLC

VARIABLES pc, live, rates,
          model_idx, last_error, calls, keyword, kw_failed,
          mode_key, selected_countries, i, all_data, returned, queries,
          progress_bar, progress_log, dashboard

vars == <<pc, live, rates, model_idx, last_error, calls, keyword, kw_failed,
          mode_key, selected_countries, i, all_data, returned, queries,
          progress_bar, progress_log, dashboard>>

rateVars == <<live, rates>>
keywordVars == <<model_idx, last_error, calls, keyword, kw_failed>>
searchVars == <<mode_key, selected_countries, i, all_data, returned, queries,
                progress_bar, progress_log, dashboard>>

(***************************************************************************)
(* Bounds of the model.                                                    *)
(***************************************************************************)
MaxItems == 2
MaxSelected == 2

(***************************************************************************)
(* Arithmetic.                                                             *)
(***************************************************************************)
R(n, d) == [n |-> n, d |-> d]

FromInt(k) == [q |-> k, r |-> 0, d |-> 1]

\* k / rate, for an integer k and a rate that is not zero
DivRate(k, rate) ==
    [q |-> (k * rate.d) \div rate.n, r |-> (k * rate.d) % rate.n, d |-> rate.n]

\* x * rate
MulRate(x, rate) ==
    LET den  == x.d * rate.d
        a    == x.q * rate.n
        b    == x.r * rate.n
        frac == (a % rate.d) * x.d + (b % den)
    IN  [q |-> (a \div rate.d) + (b \div den) + (frac \div den),
         r |-> frac % den, d |-> den]

Less(x, y) == x.q < y.q \/ (x.q = y.q /\ x.r * y.d < y.r * x.d)

Same(x, y) == x.q = y.q /\ x.r * y.d = y.r * x.d

IsZero(x) == x.q = 0 /\ x.r = 0

\* int(x) of an amount that is not negative
Trunc(x) == x.q

(***************************************************************************)
(* 0. get_exchange_rates                                                   *)
(***************************************************************************)
RateKeys == {"USD", "JPY", "GBP", "EUR", "AUD", "CAD"}

DefaultRates ==
    [cur \in RateKeys |->
        CASE cur = "USD" -> R(1, 1)
          [] cur = "JPY" -> R(150, 1)
          [] cur = "GBP" -> R(79, 100)
          [] cur = "EUR" -> R(92, 100)
          [] cur = "AUD" -> R(152, 100)
          [] cur = "CAD" -> R(135, 100)]

\* The outcome of requests.get: it raises, or it answers with a status and,
\* in its body, a "rates" object (a map from some keys to numbers).
Raised == [kind |-> "exception", status |-> 0, data |-> <<>>]

Answer(status, data) == [kind |-> "response", status |-> status, data |-> data]

get_exchange_rates(res) ==
    IF res.kind = "response" /\ res.status = 200
    THEN [cur \in RateKeys |->
            IF cur \in DOMAIN res.data THEN res.data[cur] ELSE DefaultRates[cur]]
    ELSE DefaultRates

\* the live responses the model draws from
LiveKeys == {"USD", "JPY", "GBP", "CHF"}
LiveVals == {R(0, 1), R(2, 1), R(160, 1)}
LiveData == UNION {[S -> LiveVals] : S \in SUBSET LiveKeys}
AllLive == {Raised} \cup {Answer(500, d) : d \in {[S \in {} |-> R(1, 1)]}}
             \cup {Answer(200, d) : d \in LiveData}
MainLive == {Raised,
             Answer(200, [k \in {"GBP", "JPY", "CHF"} |->
                             IF k = "GBP" THEN R(0, 1) ELSE R(160, 1)])}

FetchRates(Live) ==
    /\ pc = "start"
    /\ \E res \in Live :
          /\ live' = res
          /\ rates' = get_exchange_rates(res)
    /\ pc' = "upload"
    /\ UNCHANGED <<keywordVars, searchVars>>

(***************************************************************************)
(* 1. get_product_keyword                                                  *)
(***************************************************************************)
candidate_models ==
    <<"gemini-2.0-flash", "gemini-2.0-flash-exp", "gemini-flash-latest",
      "gemini-1.5-pro", "gemini-2.0-flash-lite-preview-02-05">>

\* str.strip(): drop the blank tokens at both ends
RECURSIVE LStrip(_)
LStrip(s) == IF s # <<>> /\ Head(s) = " " THEN LStrip(Tail(s)) ELSE s

RECURSIVE RStrip(_)
RStrip(s) ==
    IF s # <<>> /\ s[Len(s)] = " " THEN RStrip(SubSeq(s, 1, Len(s) - 1)) ELSE s

Strip(s) == RStrip(LStrip(s))

\* f"Error: 解析失敗 ({last_error})"
FailureText(err) == <<"Error:", " ", "kaiseki-shippai", " ", "(">> \o err \o <<")">>

\* What one backend does: generate_content (or response.text) raises with a
\* description, or it yields a text.
Raises(err) == [raises |-> TRUE, err |-> err, text |-> <<>>]
Yields(text) == [raises |-> FALSE, err |-> <<>>, text |-> text]

ErrorTexts == {<<"quota">>, <<"404">>}
ModelTexts == {<<>>, <<" ">>, <<" ", "Sony", " ", "a7", " ">>, <<"Error:", "blurry">>}
BackendOutcomes == {Raises(e) : e \in ErrorTexts} \cup {Yields(t) : t \in ModelTexts}

\* the except clause of the loop body: last_error = str(e) ; the faulty variant
\* keeps the first description
AfterRaise_KeepFirst(prev_error, err) == IF prev_error = <<>> THEN err ELSE prev_error

AfterRaise(prev_error, err) == err

UploadImage ==
    /\ pc = "upload"
    /\ pc' = "extract"
    /\ model_idx' = 1
    /\ last_error' = <<>>
    /\ calls' = <<>>
    /\ UNCHANGED <<keyword, kw_failed, rateVars, searchVars>>

\* one iteration of the loop over candidate_models
TryModel ==
    /\ pc = "extract"
    /\ model_idx <= Len(candidate_models)
    /\ \E out \in BackendOutcomes :
          /\ calls' = Append(calls, [model |-> candidate_models[model_idx], out |-> out])
          /\ IF out.raises
             THEN /\ last_error' = AfterRaise(last_error, out.err)
                  /\ model_idx' = model_idx + 1
                  /\ UNCHANGED <<pc, keyword, kw_failed>>
             ELSE IF Strip(out.text) # <<>>
                  THEN /\ keyword' = Strip(out.text)
                       /\ kw_failed' = FALSE
                       /\ pc' = "returned"
                       /\ UNCHANGED <<last_error, model_idx>>
                  ELSE /\ model_idx' = model_idx + 1
                       /\ UNCHANGED <<pc, keyword, kw_failed, last_error>>
    /\ UNCHANGED <<rateVars, searchVars>>

\* the return after the loop
ReturnFailure ==
    /\ pc = "extract"
    /\ model_idx > Len(candidate_models)
    /\ keyword' = FailureText(last_error)
    /\ kw_failed' = TRUE
    /\ pc' = "returned"
    /\ UNCHANGED <<model_idx, last_error, calls, rateVars, searchVars>>

\* "Error:" in keyword; the faulty variant compares the whole text
IsError_WholeText(kw) == kw = <<"Error:">>

IsError(kw) == \E k \in DOMAIN kw : kw[k] = "Error:"

\* the test of the result in the main flow; the locals of get_product_keyword
\* are gone by now
CheckKeyword ==
    /\ pc = "returned"
    /\ pc' = IF IsError(keyword) THEN "error" ELSE "ready"
    /\ model_idx' = 0
    /\ last_error' = <<>>
    /\ calls' = <<>>
    /\ UNCHANGED <<keyword, kw_failed, rateVars, searchVars>>

(***************************************************************************)
(* 2. The search: rows, the loop over the selected countries, the          *)
(*    dashboard.                                                           *)
(***************************************************************************)
\* labels stand for the display names of the five storefronts
CountryOrder == <<"US", "GB", "FR", "DE", "AU">>

COUNTRY_CONFIG ==
    [c \in {"US", "GB", "FR", "DE", "AU"} |->
        CASE c = "US" -> [id |-> "EBAY_US", currency |-> "USD"]
          [] c = "GB" -> [id |-> "EBAY_GB", currency |-> "GBP"]
          [] c = "FR" -> [id |-> "EBAY_FR", currency |-> "EUR"]
          [] c = "DE" -> [id |-> "EBAY_DE", currency |-> "EUR"]
          [] c = "AU" -> [id |-> "EBAY_AU", currency |-> "AUD"]]

SENTINEL_SORT_PRICE == 99999999

\* dict.get(key, default) on a field that is absent (<<>>) or present (<<v>>)
Get(field, default) == IF field = <<>> THEN default ELSE field[1]

\* rates.get(currency, 1.0); the faulty variant defaults to 0
RatesGet_DefaultZero(table, currency) ==
    IF currency \in DOMAIN table THEN table[currency] ELSE R(0, 1)

RatesGet(table, currency) ==
    IF currency \in DOMAIN table THEN table[currency] ELSE R(1, 1)

\* the truth value of a number
Truthy(rate) == rate.n # 0

Ok(x) == [raised |-> FALSE, value |-> x]
ZeroDivisionError == [raised |-> TRUE, value |-> FromInt(0)]

\* total_local / rate_to_usd
PyDiv(k, rate) == IF rate.n = 0 THEN ZeroDivisionError ELSE Ok(DivRate(k, rate))

\* lines 234-238; the faulty variant divides without looking at the rate
TotalUsd_NoGuard(total_local, currency, table) ==
    IF currency = "USD"
    THEN Ok(FromInt(total_local))
    ELSE PyDiv(total_local, RatesGet(table, currency))

TotalUsd(total_local, currency, table) ==
    LET rate_to_usd == RatesGet(table, currency)
    IN  IF currency = "USD"
        THEN Ok(FromInt(total_local))
        ELSE IF Truthy(rate_to_usd) THEN PyDiv(total_local, rate_to_usd)
                                    ELSE Ok(FromInt(0))

\* the display strings of the total column and of the dashboard
FormatYen(x) == [text |-> "yen", amount |-> Trunc(x)]
Dash == [text |-> "-", amount |-> 0]
NoneMark == [text |-> "nashi", amount |-> 0]

\* s[:10], a string being a sequence of characters
Take10(s) == SubSeq(s, 1, IF Len(s) < 10 THEN Len(s) ELSE 10)

\* the row the branch for an empty answer builds
SentinelRow(country_name) ==
    [country |-> country_name, title |-> "no-sales", total |-> Dash,
     detail |-> <<"-">>, link |-> "#", sort_price |-> FromInt(SENTINEL_SORT_PRICE),
     date |-> <<>>]

\* what the branch for an empty answer appends to all_data; the faulty
\* variant appends nothing
EmptyBranchRows_None(country_name) == <<>>

EmptyBranchRows(country_name) == <<SentinelRow(country_name)>>

\* "not items and mode_key == 'Sold'": whether that branch, which ends with
\* continue, is taken; the faulty variant does not look at the mode
TakesEmptyBranch_AnyMode(items, mode) == items = <<>>

TakesEmptyBranch(items, mode) == items = <<>> /\ mode = "Sold"

ItemShipping(item) ==
    IF item.shippingOptions # <<>> THEN Get(item.shippingOptions[1], 0) ELSE 0

ItemTotalLocal(item) == Get(item.value, 0) + ItemShipping(item)

ItemCurrency(item) == Get(item.currency, "USD")

\* the body of "for item in items": the row of one item, or the exception
DataRow(item, country_name, mode, table) ==
    LET item_price    == Get(item.value, 0)
        currency      == ItemCurrency(item)
        shipping_cost == ItemShipping(item)
        total_usd     == TotalUsd(item_price + shipping_cost, currency, table)
        total_jpy     == MulRate(total_usd.value, table["JPY"])
        sold_date_raw == IF item.soldDate # <<>> /\ item.soldDate[1] # <<>>
                         THEN item.soldDate[1] ELSE Get(item.itemEndDate, <<>>)
    IN  [raised |-> total_usd.raised,
         row |-> [country |-> country_name,
                  title |-> Get(item.title, "No Title"),
                  total |-> FormatYen(total_jpy),
                  detail |-> <<item_price, shipping_cost, currency>>,
                  link |-> IF item.itemWebUrl # <<>> THEN item.itemWebUrl[1]
                           ELSE Get(item.url, "None"),
                  sort_price |-> total_jpy,
                  date |-> IF mode = "Sold"
                           THEN IF sold_date_raw # <<>> THEN <<Take10(sold_date_raw)>>
                                                       ELSE <<"-">>
                           ELSE <<>>]]

DataRows(items, country_name, mode, table) ==
    [k \in 1..Len(items) |-> DataRow(items[k], country_name, mode, table).row]

AnyRaises(items, country_name, mode, table) ==
    \E k \in 1..Len(items) : DataRow(items[k], country_name, mode, table).raised

\* Series.idxmin over the rows at the positions idxs: a scan that keeps the
\* first position of the least sort_price; the faulty variant keeps the last one
RECURSIVE ScanMin_LastWins(_, _, _)
ScanMin_LastWins(rows, idxs, best) ==
    IF idxs = <<>> THEN best
    ELSE ScanMin_LastWins(rows, Tail(idxs),
                 IF ~Less(rows[best].sort_price, rows[Head(idxs)].sort_price)
                 THEN Head(idxs) ELSE best)

RECURSIVE ScanMin(_, _, _)
ScanMin(rows, idxs, best) ==
    IF idxs = <<>> THEN best
    ELSE ScanMin(rows, Tail(idxs),
                 IF Less(rows[Head(idxs)].sort_price, rows[best].sort_price)
                 THEN Head(idxs) ELSE best)

idxmin(rows, idxs) == ScanMin(rows, Tail(idxs), Head(idxs))

IsValidRow(row) == row.total # Dash

\* valid_rows[valid_rows["country"] == country]: the positions, in order, of
\* the valid rows of that country, from position k on
RECURSIVE CountryPositions(_, _, _)
CountryPositions(rows, k, country) ==
    IF k > Len(rows) THEN <<>>
    ELSE (IF IsValidRow(rows[k]) /\ rows[k].country = country THEN <<k>> ELSE <<>>)
            \o CountryPositions(rows, k + 1, country)

\* lines 279-287: the metric of one column of the dashboard
Metric(rows, country) ==
    LET country_df == CountryPositions(rows, 1, country)
    IN  IF country_df # <<>>
        THEN [label |-> country, value |-> rows[idxmin(rows, country_df)].total,
              best_idx |-> idxmin(rows, country_df)]
        ELSE [label |-> country, value |-> NoneMark, best_idx |-> 0]

NoDashboard == [rendered |-> FALSE, metrics |-> <<>>, notice |-> "nothing"]

NoProgress == [shown |-> FALSE, num |-> 0, den |-> 1]
Progress(num, den) == [shown |-> TRUE, num |-> num, den |-> den]

\* the inputs the model draws from
Seqs(S, n) == UNION {[1..k -> S] : k \in 0..n}

Item(title, itemWebUrl, url, value, currency, shippingOptions, soldDate, itemEndDate) ==
    [title |-> title, itemWebUrl |-> itemWebUrl, url |-> url, value |-> value,
     currency |-> currency, shippingOptions |-> shippingOptions,
     soldDate |-> soldDate, itemEndDate |-> itemEndDate]

SoldDate == <<"2", "0", "2", "4", "-", "0", "5", "-", "0", "1", "T", "0", "9", "Z">>

CheapItem == Item(<<"Sony a7">>, <<"u1">>, <<>>, <<1>>, <<"GBP">>, << <<1>> >>,
                  <<SoldDate>>, <<>>)
BigItem == Item(<<>>, <<>>, <<"u2">>, <<700000>>, <<>>, <<>>, <<>>, <<>>)

MainItems == {CheapItem, BigItem}
MainItemSeqs == Seqs(MainItems, MaxItems)

NormItems ==
    {Item(<<>>, <<"u1">>, <<>>, v, c, sh, <<>>, <<SoldDate>>) :
        v \in {<<>>, <<0>>, <<3>>},
        c \in {<<>>, <<"USD">>, <<"GBP">>, <<"JPY">>, <<"ZZZ">>},
        sh \in {<<>>, << <<2>> >>, << <<>>, <<5>> >>}}
NormItemSeqs == {<<it>> : it \in NormItems}

PosOf(c) == CHOOSE k \in 1..Len(CountryOrder) : CountryOrder[k] = c

\* the selections: in the order of the options, without repetition
Selections ==
    {sel \in Seqs(DOMAIN COUNTRY_CONFIG, MaxSelected) :
        \A a, b \in 1..Len(sel) : a < b => PosOf(sel[a]) < PosOf(sel[b])}

EditedKeyword == <<"Canon", " ", "EOS">>

\* st.button fires: the lines 200-201, with the widgets' values as they are
\* at that run (the mode, the selection, the text of the keyword field)
ClickSearch ==
    /\ pc = "ready"
    /\ \E mode \in {"Active", "Sold"}, sel \in Selections, kw \in {keyword, EditedKeyword} :
          /\ mode_key' = mode
          /\ selected_countries' = sel
          /\ keyword' = kw
    /\ all_data' = <<>>
    /\ progress_bar' = Progress(0, 1)
    /\ i' = 0
    /\ pc' = "loop"
    /\ UNCHANGED <<returned, queries, progress_log, dashboard, rateVars,
                   model_idx, last_error, calls, kw_failed>>

\* one iteration of "for i, country_name in enumerate(selected_countries)":
\* the query, the rows, the progress
LoopIteration(ItemSeqs) ==
    /\ pc = "loop"
    /\ i < Len(selected_countries)
    /\ LET country_name == selected_countries[i + 1]
           config       == COUNTRY_CONFIG[country_name]
       IN  \E items \in ItemSeqs :
             /\ queries' = Append(queries, [keyword |-> keyword, marketplace_id |-> config.id,
                                            mode |-> mode_key])
             /\ returned' = Append(returned, items)
             /\ IF TakesEmptyBranch(items, mode_key)
                THEN /\ all_data' = all_data \o EmptyBranchRows(country_name)
                     /\ i' = i + 1
                     /\ UNCHANGED <<pc, progress_bar, progress_log>>
                ELSE IF AnyRaises(items, country_name, mode_key, rates)
                     THEN /\ pc' = "crashed"
                          /\ UNCHANGED <<all_data, i, progress_bar, progress_log>>
                     ELSE /\ all_data' = all_data \o DataRows(items, country_name, mode_key, rates)
                          /\ progress_bar' = Progress(i + 1, Len(selected_countries))
                          /\ progress_log' = Append(progress_log,
                                                    Progress(i + 1, Len(selected_countries)))
                          /\ i' = i + 1
                          /\ UNCHANGED pc
    /\ UNCHANGED <<mode_key, selected_countries, dashboard, rateVars, keywordVars>>

SoldCount(rows) == Cardinality({k \in 1..Len(rows) : IsValidRow(rows[k])})

\* after the loop: progress_bar.empty() and the lines 269-313
Finish ==
    /\ pc = "loop"
    /\ i = Len(selected_countries)
    /\ progress_bar' = NoProgress
    /\ dashboard' =
          IF all_data # <<>>
          THEN LET rendered == mode_key = "Active"
                                 /\ \E k \in 1..Len(all_data) : IsValidRow(all_data[k])
               IN  [rendered |-> rendered,
                    metrics |-> IF rendered
                                THEN [k \in 1..Len(selected_countries) |->
                                         Metric(all_data, selected_countries[k])]
                                ELSE <<>>,
                    notice |-> IF mode_key = "Sold"
                               THEN IF SoldCount(all_data) > 0 THEN "sold" ELSE "no-sales"
                               ELSE "table"]
          ELSE [rendered |-> FALSE, metrics |-> <<>>, notice |-> "no-data"]
    /\ pc' = "done"
    /\ UNCHANGED <<mode_key, selected_countries, i, all_data, returned, queries,
                   progress_log, rateVars, keywordVars>>

(***************************************************************************)
(* The specifications.                                                     *)
(***************************************************************************)
NotFetched == [kind |-> "none", status |-> 0, data |-> <<>>]

Init ==
    /\ pc = "start"
    /\ live = NotFetched
    /\ rates = DefaultRates
    /\ model_idx = 0
    /\ last_error = <<>>
    /\ calls = <<>>
    /\ keyword = <<>>
    /\ kw_failed = FALSE
    /\ mode_key = "Active"
    /\ selected_countries = <<>>
    /\ i = 0
    /\ all_data = <<>>
    /\ returned = <<>>
    /\ queries = <<>>
    /\ progress_bar = NoProgress
    /\ progress_log = <<>>
    /\ dashboard = NoDashboard

\* one run of the script: the rates, the keyword, the search
Next ==
    \/ FetchRates(MainLive)
    \/ UploadImage
    \/ TryModel
    \/ ReturnFailure
    \/ CheckKeyword
    \/ ClickSearch
    \/ LoopIteration(MainItemSeqs)
    \/ Finish

Spec == Init /\ [][Next]_vars

\* get_exchange_rates over every live response of the model
NextRates == FetchRates(AllLive)

SpecRates == Init /\ [][NextRates]_vars

\* the rows of single items, over the items and the rate tables of the model:
\* the state is the one at the start of the loop of a search over one country
NormLive ==
    {Raised} \cup
    {Answer(200, d) : d \in UNION {[S -> {R(0, 1), R(2, 1), R(160, 1)}] :
                                      S \in SUBSET {"GBP", "JPY"}}}

InitNorm ==
    /\ pc = "loop"
    /\ live \in NormLive
    /\ rates = get_exchange_rates(live)
    /\ model_idx = 0
    /\ last_error = <<>>
    /\ calls = <<>>
    /\ keyword = <<"Sony", " ", "a7">>
    /\ kw_failed = FALSE
    /\ mode_key \in {"Active", "Sold"}
    /\ selected_countries = <<"GB">>
    /\ i = 0
    /\ all_data = <<>>
    /\ returned = <<>>
    /\ queries = <<>>
    /\ progress_bar = Progress(0, 1)
    /\ progress_log = <<>>
    /\ dashboard = NoDashboard

NextNorm ==
    \/ LoopIteration(NormItemSeqs)
    \/ Finish

SpecNorm == InitNorm /\ [][NextNorm]_vars

(***************************************************************************)
(* The claims.                                                             *)
(***************************************************************************)
InSearch == pc \in {"loop", "done"}

\* the positions of the rows of all_data that carry the label of a country
RowsOf(country) == {j \in 1..Len(all_data) : all_data[j].country = country}

IsSentinel(row) ==
    /\ row.title = "no-sales"
    /\ row.total.text = "-"
    /\ row.detail = <<"-">>
    /\ row.link = "#"
    /\ row.sort_price.q = 99999999
    /\ row.sort_price.r = 0

\* C1: in Sold mode every country whose query returned no item has exactly
\* one row in the combined table, and that row is the "no sales found" row
\* (total "-", breakdown "-", link "#", sort_price 99999999).
C1_SoldEmptyGivesOneSentinelRow ==
    (InSearch /\ mode_key = "Sold") =>
        \A k \in 1..Len(returned) :
            returned[k] = <<>> =>
                /\ Cardinality(RowsOf(selected_countries[k])) = 1
                /\ \A j \in RowsOf(selected_countries[k]) : IsSentinel(all_data[j])

C1_Witness ==
    /\ pc = "done"
    /\ mode_key = "Sold"
    /\ Len(returned) = 2
    /\ returned[1] # <<>>
    /\ returned[2] = <<>>

\* the labels of the rows expected from the answers k..Len(answers)
RECURSIVE ExpectedLabels(_, _, _)
ExpectedLabels(answers, sel, k) ==
    IF k > Len(answers) THEN <<>>
    ELSE [j \in 1..Len(answers[k]) |-> sel[k]] \o ExpectedLabels(answers, sel, k + 1)

\* C2: in Active mode a country whose query returned no item adds no row: the
\* combined table holds one row per returned item, grouped by country in the
\* order of the selection; once the table is not empty the dashboard is shown
\* and marks every such country "none".
C2_ActiveEmptyGivesNoRow ==
    (InSearch /\ mode_key = "Active") =>
        /\ [j \in 1..Len(all_data) |-> all_data[j].country]
              = ExpectedLabels(returned, selected_countries, 1)
        /\ \A j \in 1..Len(all_data) : all_data[j].total.text = "yen"
        /\ (pc = "done" /\ all_data # <<>>) =>
              /\ dashboard.rendered
              /\ Len(dashboard.metrics) = Len(selected_countries)
              /\ \A k \in 1..Len(returned) :
                    returned[k] = <<>> =>
                        /\ dashboard.metrics[k].label = selected_countries[k]
                        /\ dashboard.metrics[k].value.text = "nashi"

C2_Witness ==
    /\ pc = "done"
    /\ mode_key = "Active"
    /\ Len(returned) = 2
    /\ returned[1] = <<>>
    /\ Len(returned[2]) = 2
    /\ Len(all_data) = 2

\* C3: in Active mode with a table that is not empty, the metric of every
\* selected country that has a row whose total is not "-" is the total of the
\* row of least sort_price among them, the first such row in the order of the
\* table when several share the least sort_price; every other selected country
\* is shown "none".
C3_DashboardShowsFirstMinimum ==
    (pc = "done" /\ mode_key = "Active" /\ all_data # <<>>) =>
        /\ dashboard.rendered
        /\ \A k \in 1..Len(selected_countries) :
              LET own == {j \in RowsOf(selected_countries[k]) : all_data[j].total.text # "-"}
                  m   == dashboard.metrics[k]
              IN  IF own # {}
                  THEN /\ m.best_idx \in own
                       /\ m.value = all_data[m.best_idx].total
                       /\ \A j \in own :
                            /\ ~Less(all_data[j].sort_price, all_data[m.best_idx].sort_price)
                            /\ j < m.best_idx =>
                                  Less(all_data[m.best_idx].sort_price, all_data[j].sort_price)
                  ELSE m.value.text = "nashi"

C3_Witness ==
    /\ pc = "done"
    /\ mode_key = "Active"
    /\ dashboard.rendered
    /\ Len(selected_countries) = 2
    /\ dashboard.metrics[1].value.text = "nashi"
    /\ \E j \in RowsOf(selected_countries[2]) :
          /\ j > dashboard.metrics[2].best_idx
          /\ Same(all_data[j].sort_price, all_data[dashboard.metrics[2].best_idx].sort_price)

\* C4: after the k-th selected country has been processed, and before the
\* query of the next one, the progress indicator shows k / (number of selected
\* countries), in either mode and whatever the query returned.
C4_ProgressAfterEachCountry ==
    (pc = "loop" /\ i > 0) => progress_bar = Progress(i, Len(selected_countries))

\* the item and the row at position k of a search over one country whose
\* answer was not empty
NormCase == InSearch /\ Len(returned) = 1 /\ Len(all_data) = Len(returned[1])

\* (q + r/d) = k * n/m, by cross multiplication
IsProduct(x, k, rate) == (x.q * x.d + x.r) * rate.d = k * rate.n * x.d

\* C5 as stated: a rate that is missing from the rate table or equal to zero
\* yields a total of 0, and nothing divides by zero.
C5_MissingOrZeroRateGivesZero ==
    /\ pc # "crashed"
    /\ NormCase =>
          \A k \in 1..Len(all_data) :
              LET cur == ItemCurrency(returned[1][k])
              IN  (cur # "USD" /\ (cur \notin DOMAIN rates \/ rates[cur].n = 0)) =>
                      (IsZero(all_data[k].sort_price) /\ all_data[k].total.amount = 0)

\* C5 as amended: a rate of the table that is equal to zero yields a total of
\* 0, a currency that is missing from the table does not (its total is 0 only
\* when the local total or the home rate is 0), and nothing divides by zero.
C5_ZeroRateGivesZero ==
    /\ pc # "crashed"
    /\ NormCase =>
          \A k \in 1..Len(all_data) :
              LET cur == ItemCurrency(returned[1][k])
              IN  /\ (cur # "USD" /\ cur \in DOMAIN rates /\ rates[cur].n = 0) =>
                        (IsZero(all_data[k].sort_price) /\ all_data[k].total.amount = 0)
                  /\ (cur \notin DOMAIN rates) =>
                        (IsZero(all_data[k].sort_price)
                            <=> (ItemTotalLocal(returned[1][k]) = 0 \/ rates["JPY"].n = 0))

C5_Witness ==
    /\ NormCase
    /\ \E k \in 1..Len(all_data) :
          /\ ItemCurrency(returned[1][k]) = "GBP"
          /\ rates["GBP"].n = 0
          /\ rates["JPY"].n # 0
          /\ ItemTotalLocal(returned[1][k]) > 0
          /\ all_data[k].total.amount = 0

\* C6: an item whose currency is not a key of the rate table is converted at
\* the rate 1.0: its home total is (item_price + shipping_cost) * rate[JPY],
\* and its row is emitted without an error.
C6_UnknownCurrencyUsesRateOne ==
    /\ pc # "crashed"
    /\ (InSearch /\ Len(returned) = 1 /\ returned[1] # <<>>) =>
          /\ Len(all_data) = Len(returned[1])
          /\ \A k \in 1..Len(all_data) :
                LET it == returned[1][k]
                IN  (it.currency # <<>> /\ it.currency[1] \notin DOMAIN rates) =>
                        /\ IsProduct(all_data[k].sort_price,
                                     Get(it.value, 0) + ItemShipping(it), rates["JPY"])
                        /\ all_data[k].detail[3] = it.currency[1]

C6_Witness ==
    /\ NormCase
    /\ \E k \in 1..Len(all_data) :
          /\ returned[1][k].currency = <<"ZZZ">>
          /\ returned[1][k].value = <<3>>
          /\ returned[1][k].shippingOptions = << <<2>> >>
          /\ rates["JPY"] = R(160, 1)
          /\ all_data[k].total.amount = 800

\* C7: a failure value of get_product_keyword is never passed to the
\* marketplace query: after a failure the button and the loop are out of
\* reach, and every query was made after a usable keyword.
C7_FailureNeverQueried ==
    /\ kw_failed => (pc \in {"returned", "error"} /\ queries = <<>>)
    /\ (queries # <<>> \/ pc \in {"ready", "loop", "done"}) => ~kw_failed

C7_Witness ==
    /\ pc = "error"
    /\ kw_failed
    /\ keyword[1] = "Error:"

Blanks(n) == [j \in 1..n |-> " "]

\* t is s without the blanks at its ends
IsTrimOf(t, s) ==
    /\ t # <<>> => (t[1] # " " /\ t[Len(t)] # " ")
    /\ \E a, b \in 0..Len(s) : s = Blanks(a) \o t \o Blanks(b)

\* the call at position k produced a text that is not empty once trimmed
Usable(k) ==
    /\ ~calls[k].out.raises
    /\ \E j \in 1..Len(calls[k].out.text) : calls[k].out.text[j] # " "

\* C8: the backends are called in the order of the list; the result is the
\* trimmed text of the first backend that yields a non-empty one, and no
\* backend is called after it; a backend that raises is passed over; a
\* failure is returned only after all the candidates, and it carries the
\* description of the last error that occurred.
C8_FirstUsableBackendWins ==
    /\ (pc \in {"extract", "returned"}) =>
          /\ Len(calls) <= Len(candidate_models)
          /\ \A k \in 1..Len(calls) : calls[k].model = candidate_models[k]
          /\ \A k \in 1..(Len(calls) - 1) : ~Usable(k)
          /\ pc = "extract" => (\A k \in 1..Len(calls) : ~Usable(k))
    /\ pc = "returned" =>
          IF calls # <<>> /\ Usable(Len(calls))
          THEN /\ ~kw_failed
               /\ IsTrimOf(keyword, calls[Len(calls)].out.text)
          ELSE /\ kw_failed
               /\ Len(calls) = Len(candidate_models)
               /\ keyword[1] = "Error:"
               /\ LET raised == {k \in 1..Len(calls) : calls[k].out.raises}
                  IN  raised # {} =>
                        LET last == CHOOSE k \in raised : \A j \in raised : j <= k
                        IN  SubSeq(keyword, 6, Len(keyword) - 1) = calls[last].out.err

C8_Witness ==
    /\ pc = "returned"
    /\ kw_failed
    /\ calls[1].out.raises
    /\ calls[3].out.raises
    /\ calls[1].out.err # calls[3].out.err
    /\ ~calls[2].out.raises
    /\ ~calls[5].out.raises
    /\ SubSeq(keyword, 6, Len(keyword) - 1) = calls[3].out.err

\* C9: the table get_exchange_rates returns maps USD to exactly 1.0 and has
\* exactly the six keys; a key that is absent from the live response keeps
\* its default, and a failed fetch leaves the six defaults.
C9_RateTableKeepsUsdAtOne ==
    pc = "upload" =>
        /\ DOMAIN rates = {"USD", "JPY", "GBP", "EUR", "AUD", "CAD"}
        /\ rates["USD"] = R(1, 1)
        /\ \A cur \in DOMAIN rates :
              (live.kind # "response" \/ live.status # 200 \/ cur \notin DOMAIN live.data)
                  => rates[cur] = DefaultRates[cur]

\* C10: in the combined table every "no result" row has a sort_price strictly
\* greater than the sort_price of every row built from an item.
C10_SentinelAboveEveryItemRow ==
    InSearch =>
        \A j, k \in 1..Len(all_data) :
            (all_data[j].total.text = "-" /\ all_data[k].total.text # "-")
                => Less(all_data[k].sort_price, all_data[j].sort_price)

====
